---- MODULE Spec2Model ----
(***************************************************************************)
(* Model of server/utils/parsers/parseComicMetadata.js: the byte loader    *)
(* getComicFileBuffer, the cover extractor extractCoverImage and the       *)
(* metadata parser parse, each an async function whose awaits are the      *)
(* steps of a call.  Collaborators (fs, Archive, xmlToJSON,                *)
(* parseComicInfoMetadata) are modelled by the outcomes they can deliver.  *)
(* Entry names are sequences of one-character strings without a path       *)
(* separator.                                                              *)
(***************************************************************************)
EXTENDS Integers, Sequences, FiniteSets, TLC

(* ------------------------------ bounds --------------------------------- *)

\* Largest number of entries in a modelled archive.
MaxEntries == 3

\* Number of calls of the module that a behaviour may hold.
NumCalls == 2

Calls == 1..NumCalls

(* --------------------------- characters -------------------------------- *)

Digits == <<"0", "1", "2", "3", "4", "5", "6", "7", "8", "9">>

LowerLetters == <<"a", "b", "c", "d", "e", "f", "g", "h", "i", "j", "k", "l", "m",
                  "n", "o", "p", "q", "r", "s", "t", "u", "v", "w", "x", "y", "z">>

UpperLetters == <<"A", "B", "C", "D", "E", "F", "G", "H", "I", "J", "K", "L", "M",
                  "N", "O", "P", "Q", "R", "S", "T", "U", "V", "W", "X", "Y", "Z">>

\* Position of ch in the tuple t, 0 when it does not occur.
IndexIn(ch, t) ==
    IF \E i \in 1..Len(t) : t[i] = ch
    THEN CHOOSE i \in 1..Len(t) : t[i] = ch
    ELSE 0

IsDigit(ch) == IndexIn(ch, Digits) > 0

DigitValue(ch) == IndexIn(ch, Digits) - 1

\* String.prototype.toLowerCase on one character.
LowerChar(ch) ==
    IF IndexIn(ch, UpperLetters) > 0 THEN LowerLetters[IndexIn(ch, UpperLetters)] ELSE ch

\* String.prototype.toLowerCase.
ToLowerCase(s) == [i \in 1..Len(s) |-> LowerChar(s[i])]

\* Primary collation weight of a character under sensitivity 'base':
\* punctuation, then digits, then letters with case ignored.
BaseWeight(ch) ==
    IF ch = "." THEN 1
    ELSE IF IsDigit(ch) THEN 2 + DigitValue(ch)
    ELSE 12 + IndexIn(LowerChar(ch), LowerLetters)

(* ------------------------- natural comparison -------------------------- *)

\* Length of the run of digits of s that starts at position i.
RECURSIVE DigitRunLen(_, _)
DigitRunLen(s, i) ==
    IF i > Len(s) \/ ~IsDigit(s[i]) THEN 0 ELSE 1 + DigitRunLen(s, i + 1)

\* Numeric value of the n digits of s from position i (option numeric: true).
RECURSIVE DigitRunValue(_, _, _)
DigitRunValue(s, i, n) ==
    IF n = 0 THEN 0
    ELSE DigitRunValue(s, i, n - 1) * 10 + DigitValue(s[i + n - 1])

Sign(x) == IF x < 0 THEN -1 ELSE IF x > 0 THEN 1 ELSE 0

\* a.localeCompare(b, undefined, {numeric: true, sensitivity: 'base'}) from
\* positions i of a and j of b: -1, 0 or 1.
RECURSIVE CompareFrom(_, _, _, _)
CompareFrom(a, i, b, j) ==
    IF i > Len(a) /\ j > Len(b) THEN 0
    ELSE IF i > Len(a) THEN -1
    ELSE IF j > Len(b) THEN 1
    ELSE IF IsDigit(a[i]) /\ IsDigit(b[j])
    THEN LET na == DigitRunLen(a, i)
             nb == DigitRunLen(b, j)
             va == DigitRunValue(a, i, na)
             vb == DigitRunValue(b, j, nb)
         IN  IF va # vb THEN Sign(va - vb) ELSE CompareFrom(a, i + na, b, j + nb)
    ELSE IF BaseWeight(a[i]) # BaseWeight(b[j])
    THEN Sign(BaseWeight(a[i]) - BaseWeight(b[j]))
    ELSE CompareFrom(a, i + 1, b, j + 1)

\* The comparator handed to fileObjects.sort.
LocaleCompare(a, b) == CompareFrom(a, 1, b, 1)

\* Insertion of entry e into the sorted sequence s behind every entry that
\* does not compare greater: Array.prototype.sort is stable.
RECURSIVE InsertSorted(_, _)
InsertSorted(s, e) ==
    IF s = <<>> THEN <<e>>
    ELSE IF LocaleCompare(e.name, Head(s).name) < 0 THEN <<e>> \o s
    ELSE <<Head(s)>> \o InsertSorted(Tail(s), e)

\* A listing left in the order the decoder delivered it.
SortSkipped(s) == s

\* fileObjects.sort((a, b) => a.file.name.localeCompare(b.file.name, ...)).
RECURSIVE SortEntries(_)
SortEntries(s) ==
    IF s = <<>> THEN <<>>
    ELSE InsertSorted(SortEntries(SubSeq(s, 1, Len(s) - 1)), s[Len(s)])

(* ------------------------ names and extensions ------------------------- *)

\* Index of the last "." of s, 0 when there is none.
LastDot(s) ==
    IF \E i \in 1..Len(s) : s[i] = "."
    THEN CHOOSE i \in 1..Len(s) : s[i] = "." /\ \A k \in (i + 1)..Len(s) : s[k] # "."
    ELSE 0

\* Path.extname of a name without separators: from the last "." to the end,
\* empty when there is no "." or when the only "." opens the name, and empty
\* for "..".
ExtName(s) ==
    LET d == LastDot(s)
    IN  IF d = 0 \/ d = 1 THEN <<>>
        ELSE IF s = <<".", ".">> THEN <<>>
        ELSE SubSeq(s, d, Len(s))

\* String.prototype.slice(1).
Slice1(s) == IF Len(s) <= 1 THEN <<>> ELSE SubSeq(s, 2, Len(s))

\* globals.SupportedImageTypes, the process-wide set of image extensions.
SupportedImageTypes ==
    { <<"j", "p", "g">>, <<"j", "p", "e", "g">>, <<"p", "n", "g">>,
      <<"g", "i", "f">>, <<"w", "e", "b", "p">> }

\* The predicate of the cover search:
\* SupportedImageTypes.includes(Path.extname(name).toLowerCase().slice(1)).
IsSupportedImage(name) == Slice1(ToLowerCase(ExtName(name))) \in SupportedImageTypes

\* The reserved sidecar file name.
ComicInfoName == <<"C", "o", "m", "i", "c", "I", "n", "f", "o", ".", "x", "m", "l">>

\* A sidecar search that ignores case.
IsComicInfoAnyCase(name) == ToLowerCase(name) = ToLowerCase(ComicInfoName)

\* The predicate of the sidecar search: fo.file.name === 'ComicInfo.xml'.
IsComicInfo(name) == name = ComicInfoName

\* fileObjects.find((fo) => fo.file.name === 'ComicInfo.xml') as an index:
\* the first position of fos whose entry bears the sidecar name, 0 when
\* none does.
ComicInfoIndex(fos) ==
    IF \E i \in 1..Len(fos) : IsComicInfo(fos[i].name)
    THEN CHOOSE i \in 1..Len(fos) :
            IsComicInfo(fos[i].name) /\ \A k \in 1..(i - 1) : ~IsComicInfo(fos[k].name)
    ELSE 0

\* fileObjects.find((fo) => SupportedImageTypes.includes(...)) as an index:
\* the first position of fos whose entry is a supported image, 0 when none is.
FirstImageIndex(fos) ==
    IF \E i \in 1..Len(fos) : IsSupportedImage(fos[i].name)
    THEN CHOOSE i \in 1..Len(fos) :
            IsSupportedImage(fos[i].name) /\ \A k \in 1..(i - 1) : ~IsSupportedImage(fos[k].name)
    ELSE 0

(* ------------------------------ values --------------------------------- *)

Null == <<"null">>

Undefined == <<"undefined">>

\* fileData of the entry stored under archive path p; EmptyBytes is a
\* zero-length byte array, an object and so truthy.
Bytes(p) == <<"bytes", p>>

EmptyBytes == <<"bytes", 0>>

\* A check that also takes fileData of length zero for no data.
TruthyNonEmpty(v) == v # Null /\ v # Undefined /\ v # EmptyBytes

\* JavaScript truthiness of an extracted entry's fileData.
Truthy(v) == v # Null /\ v # Undefined

\* new TextDecoder().decode(fileData).
Decode(d) == <<"text", d[2]>>

\* The object xmlToJSON resolves to for a well-formed document.
XmlObject(str) == <<"json", str[2]>>

\* Metadata handed on as xmlToJSON delivered it.
NormalizeSkipped(json) == json

\* parseComicInfoMetadata.parse(json), the normalised metadata.
Normalize(json) == <<"metadata", json[2]>>

\* The archive entries as getFilesArray lists them: names in decoder
\* order, each with the archive path that identifies it.
FilesArray(names) == [i \in 1..Len(names) |-> [name |-> names[i], path |-> i]]

\* A parse that has nothing to return for a comic without a cover.
PayloadNeedsCover(meta, fos) ==
    LET k == FirstImageIndex(fos)
    IN  IF k > 0 THEN <<"payload", meta, <<"path", fos[k].path>>>> ELSE Null

\* The payload parse builds; ebookCoverPath stays undefined without a cover.
Payload(meta, fos) ==
    LET k == FirstImageIndex(fos)
    IN  <<"payload", meta, IF k > 0 THEN <<"path", fos[k].path>> ELSE Undefined>>

(* ------------------------------ inputs --------------------------------- *)

\* Entry names the modelled archives draw from: numbered pages, a page
\* whose name differs from another only in case, the sidecar, a file whose
\* name differs from the sidecar's only in case, and a dot file.
NamePool ==
    { <<"p", "1", ".", "j", "p", "g">>,
      <<"p", "2", ".", "j", "p", "g">>,
      <<"p", "1", "0", ".", "j", "p", "g">>,
      <<"P", "1", ".", "J", "P", "G">>,
      ComicInfoName,
      <<"c", "o", "m", "i", "c", "i", "n", "f", "o", ".", "x", "m", "l">>,
      <<".", "p", "n", "g">> }

\* Sequences over S of length at most n.
RECURSIVE SeqsUpTo(_, _)
SeqsUpTo(S, n) ==
    IF n = 0 THEN {<<>>}
    ELSE LET shorter == SeqsUpTo(S, n - 1)
         IN  shorter \cup {Append(q, x) : q \in {r \in shorter : Len(r) = n - 1}, x \in S}

\* The archives a call may be handed: the names in decoder order.
Archives == SeqsUpTo(NamePool, MaxEntries)

(* ------------------------------- state --------------------------------- *)

VARIABLES
    kind,         \* kind[c]: the function call c runs, "none" for an unused call
    pc,           \* pc[c]: the await call c is suspended at, or "idle" / "done"
    content,      \* content[c]: the entry names of the archive at comicPath
    target,       \* target[c]: comicImageFilepath, an archive path
    archive,      \* archive[c]: the local variable archive: "null", "open", "closed"
    fileObjects,  \* fileObjects[c]: the sorted listing
    work,         \* work[c]: the value awaiting the next step (fileData, comicInfoStr)
    result,       \* result[c]: how the call settled and with what value
    output,       \* output[c]: what the file at outputCoverPath holds
    steps,        \* steps[c]: how often each collaborator was invoked
    outcome,      \* outcome[c]: what each collaborator delivered, "-" before it did
    sessions,     \* sessions[s]: the decoder's session s: its state and its users
    handle        \* handle[c]: the session the variable archive of c refers to, 0 for none

vars == <<kind, pc, content, target, archive, fileObjects, work, result, output, steps, outcome,
          sessions, handle>>

NoSteps ==
    [openCall |-> 0, opened |-> 0, close |-> 0, list |-> 0, extract |-> 0, decode |-> 0,
     xml |-> 0, normalize |-> 0, write |-> 0]

NoOutcome ==
    [exists |-> "-", read |-> "-", open |-> "-", list |-> "-", extract |-> "-",
     xml |-> "-", normalize |-> "-", write |-> "-"]

\* The decoder's sessions before any was opened; a session bears the
\* number of the call whose open() created it.
NoSessions == [s \in Calls |-> [state |-> "none", users |-> {}]]

Pending == [state |-> "pending", value |-> <<"none">>]

Returned(v) == [state |-> "returned", value |-> v]

Thrown == [state |-> "thrown", value |-> <<"none">>]

Bump(s, f) == [s EXCEPT ![f] = @ + 1]

\* One call to parse or extractCoverImage, the other calls unused.
Init ==
    \E k \in {"parse", "extractCoverImage"}, names \in Archives, t \in 1..(MaxEntries + 1) :
        /\ kind = [c \in Calls |-> IF c = 1 THEN k ELSE "none"]
        /\ pc = [c \in Calls |-> IF c = 1 THEN "exists" ELSE "idle"]
        /\ content = [c \in Calls |-> IF c = 1 THEN names ELSE <<>>]
        /\ target = [c \in Calls |-> IF c = 1 /\ k = "extractCoverImage" THEN t ELSE 0]
        /\ archive = [c \in Calls |-> "null"]
        /\ fileObjects = [c \in Calls |-> <<>>]
        /\ work = [c \in Calls |-> Null]
        /\ result = [c \in Calls |-> Pending]
        /\ output = [c \in Calls |-> <<"unchanged">>]
        /\ steps = [c \in Calls |-> NoSteps]
        /\ outcome = [c \in Calls |-> NoOutcome]
        /\ sessions = NoSessions
        /\ handle = [c \in Calls |-> 0]

(* ------------------------- leaving a call ------------------------------ *)

\* A finally block that releases nothing.
FinallyLeak(a, st) == [archive |-> a, steps |-> st]

\* A finally block that calls close() on whatever archive holds.
FinallyUnguarded(a, st) ==
    [archive |-> IF a = "open" THEN "closed" ELSE a, steps |-> Bump(st, "close")]

\* finally { archive?.close() }: close() is called when archive holds a
\* session and skipped while it is still null.
FinallyClose(a, st) ==
    IF a = "null"
    THEN [archive |-> a, steps |-> st]
    ELSE [archive |-> "closed", steps |-> Bump(st, "close")]

\* The value each function's catch block returns.
CatchValue(k) == IF k = "parse" THEN Null ELSE <<"false">>

\* A parse that gives up when the sidecar yields no metadata.
MetadataAbort(fos) == Null

\* What parse returns when the sidecar is missing, has no data or does
\* not convert: metadata stays null and the payload is built as usual.
MetadataAbsent(fos) == Payload(Null, fos)

\* The positions at which a call lists or extracts through its session.
UsingSteps == {"list", "extract", "extractSingle"}

\* The decoder's sessions after the step call c is at, which ends with
\* close() when closing holds: c is a user of the session its archive
\* refers to when it lists, extracts or closes.
SessionsAfter(c, closing) ==
    LET h == handle[c]
        used == IF h # 0 /\ pc[c] \in UsingSteps
                THEN [sessions EXCEPT ![h].users = @ \cup {c}]
                ELSE sessions
    IN  IF closing /\ h # 0
        THEN [used EXCEPT ![h].state = "closed", ![h].users = @ \cup {c}]
        ELSE used

\* Call c leaves its try statement, by a return or through catch, with
\* archive a and step counts st: the finally block runs and the call
\* settles with the value v.
LeaveTry(c, a, st, v) ==
    LET fin == FinallyClose(a, st)
    IN  /\ pc' = [pc EXCEPT ![c] = "done"]
        /\ archive' = [archive EXCEPT ![c] = fin.archive]
        /\ steps' = [steps EXCEPT ![c] = fin.steps]
        /\ sessions' = SessionsAfter(c, fin.steps.close > st.close)
        /\ result' = [result EXCEPT ![c] = Returned(v)]

\* Call c settles with res before it enters its try statement.
LeaveEarly(c, res) ==
    /\ pc' = [pc EXCEPT ![c] = "done"]
    /\ result' = [result EXCEPT ![c] = res]
    /\ UNCHANGED <<archive, steps, sessions>>

\* Call c moves on to the await at position p, with step counts st.
Goto(c, p, st) ==
    /\ pc' = [pc EXCEPT ![c] = p]
    /\ steps' = [steps EXCEPT ![c] = st]
    /\ UNCHANGED result

\* The collaborator named f delivered o to call c.
Delivered(c, f, o) == outcome' = [outcome EXCEPT ![c][f] = o]

(* --------------------------- getComicFileBuffer ------------------------ *)

\* A loader that goes on to read a path that does not exist.
MissingPathRead(exists) == "read"

\* if (!(await fs.pathExists(filepath))) return null: where the call goes
\* next, "done" standing for the null the loader returns.
AfterPathExists(exists) == IF exists THEN "read" ELSE "done"

\* await fs.pathExists(filepath), and for a missing path the null the
\* loader returns and the caller's `if (!comicFileBuffer) return null`.
PathExists(c) ==
    /\ pc[c] = "exists"
    /\ \E exists \in BOOLEAN :
        /\ Delivered(c, "exists", IF exists THEN "yes" ELSE "no")
        /\ IF AfterPathExists(exists) = "done"
           THEN LeaveEarly(c, Returned(Null))
           ELSE Goto(c, "read", steps[c]) /\ UNCHANGED <<archive, sessions>>
    /\ UNCHANGED <<kind, content, target, fileObjects, work, output, handle>>

\* return fs.readFile(filepath): the promise is returned without await,
\* so its rejection passes the loader's catch block and reaches the
\* caller's await, which stands outside the caller's try statement.
ReadRejection(k) == Thrown

\* The read of the archive file, and the caller's check of the buffer.
ReadFile(c) ==
    /\ pc[c] = "read"
    /\ \E ok \in BOOLEAN :
        /\ Delivered(c, "read", IF ok THEN "ok" ELSE "fail")
        /\ IF ok
           THEN Goto(c, "open", steps[c]) /\ UNCHANGED <<archive, sessions>>
           ELSE LeaveEarly(c, ReadRejection(kind[c]))
    /\ UNCHANGED <<kind, content, target, fileObjects, work, output, handle>>

(* -------------------------------- parse -------------------------------- *)

\* An open() that hands out a session another call holds open, as a
\* decoder that caches its sessions would.
SessionCached(c, ss) ==
    IF \E d \in Calls : ss[d].state = "open"
    THEN CHOOSE d \in Calls : ss[d].state = "open"
    ELSE c

\* The session Archive.open creates for call c: a new one at every call.
SessionOpened(c, ss) == c

\* An open() whose rejection is swallowed: the call goes on to use the
\* archive it never got.
OpenSwallowed(c) ==
    /\ pc[c] = "open"
    /\ LET st == Bump(steps[c], "openCall")
       IN  \E ok \in BOOLEAN :
            /\ Delivered(c, "open", IF ok THEN "ok" ELSE "fail")
            /\ Goto(c, IF kind[c] = "parse" THEN "list" ELSE "extractSingle",
                    IF ok THEN Bump(st, "opened") ELSE st)
            /\ IF ok
               THEN /\ archive' = [archive EXCEPT ![c] = "open"]
                    /\ handle' = [handle EXCEPT ![c] = c]
                    /\ sessions' = [sessions EXCEPT ![c].state = "open"]
               ELSE UNCHANGED <<archive, handle, sessions>>
    /\ UNCHANGED <<kind, content, target, fileObjects, work, output>>

\* archive = await Archive.open(comicFileBuffer), in parse and in
\* extractCoverImage alike; a rejection goes to the function's catch block.
Open(c) ==
    /\ pc[c] = "open"
    /\ LET st == Bump(steps[c], "openCall")
       IN  \E ok \in BOOLEAN :
            /\ Delivered(c, "open", IF ok THEN "ok" ELSE "fail")
            /\ IF ok
               THEN LET s == SessionOpened(c, sessions)
                    IN  /\ archive' = [archive EXCEPT ![c] = "open"]
                        /\ handle' = [handle EXCEPT ![c] = s]
                        /\ sessions' = [sessions EXCEPT ![s].state = "open"]
                        /\ Goto(c, IF kind[c] = "parse" THEN "list" ELSE "extractSingle",
                                Bump(st, "opened"))
               ELSE /\ LeaveTry(c, archive[c], st, CatchValue(kind[c]))
                    /\ UNCHANGED handle
    /\ UNCHANGED <<kind, content, target, fileObjects, work, output>>

\* await archive.getFilesArray(), the sort, and the search for the sidecar;
\* without a sidecar the call runs on to its return.
GetFilesArray(c) ==
    /\ pc[c] = "list"
    /\ LET st == Bump(steps[c], "list")
       IN  \E ok \in BOOLEAN :
            /\ Delivered(c, "list", IF ok THEN "ok" ELSE "fail")
            /\ IF ok
               THEN LET fos == SortEntries(FilesArray(content[c]))
                    IN  /\ fileObjects' = [fileObjects EXCEPT ![c] = fos]
                        /\ IF ComicInfoIndex(fos) > 0
                           THEN /\ Goto(c, "extract", st)
                                /\ sessions' = SessionsAfter(c, FALSE)
                                /\ UNCHANGED archive
                           ELSE LeaveTry(c, archive[c], st, MetadataAbsent(fos))
               ELSE /\ LeaveTry(c, archive[c], st, CatchValue(kind[c]))
                    /\ UNCHANGED fileObjects
    /\ UNCHANGED <<kind, content, target, work, output, handle>>

\* What extract() of the entry under archive path p can deliver: a
\* rejection, no entry object, an entry without fileData, or its bytes.
ExtractOutcomes(p) == {<<"throw">>, Undefined, Null, EmptyBytes, Bytes(p)}

\* How the log names what an extraction delivered.
ExtractLabel(d) ==
    IF d = <<"throw">> THEN "throw"
    ELSE IF d = Undefined THEN "noentry"
    ELSE IF d = Null THEN "nodata"
    ELSE IF d = EmptyBytes THEN "empty"
    ELSE "data"

\* await comicInfo.file.extract(); with fileData, the text is decoded.
ExtractComicInfo(c) ==
    /\ pc[c] = "extract"
    /\ LET fos == fileObjects[c]
           entry == fos[ComicInfoIndex(fos)]
           st == Bump(steps[c], "extract")
       IN  \E d \in ExtractOutcomes(entry.path) :
            /\ Delivered(c, "extract", ExtractLabel(d))
            /\ IF d = <<"throw">>
               THEN /\ LeaveTry(c, archive[c], st, CatchValue(kind[c]))
                    /\ UNCHANGED work
               ELSE IF Truthy(d)
               THEN /\ work' = [work EXCEPT ![c] = Decode(d)]
                    /\ Goto(c, "xml", Bump(st, "decode"))
                    /\ sessions' = SessionsAfter(c, FALSE)
                    /\ UNCHANGED archive
               ELSE /\ LeaveTry(c, archive[c], st, MetadataAbsent(fos))
                    /\ UNCHANGED work
    /\ UNCHANGED <<kind, content, target, fileObjects, output, handle>>

\* await xmlToJSON(comicInfoStr): a rejection, null, or the object, which
\* parseComicInfoMetadata.parse then normalises or rejects by throwing;
\* the call runs on to its return.
XmlToJSON(c) ==
    /\ pc[c] = "xml"
    /\ LET fos == fileObjects[c]
           st == Bump(steps[c], "xml")
       IN  \E out \in {"throw", "null", "object"} :
            CASE out = "throw" ->
                    /\ Delivered(c, "xml", out)
                    /\ LeaveTry(c, archive[c], st, CatchValue(kind[c]))
              [] out = "null" ->
                    /\ Delivered(c, "xml", out)
                    /\ LeaveTry(c, archive[c], st, MetadataAbsent(fos))
              [] out = "object" ->
                    \E ok \in BOOLEAN :
                        /\ outcome' = [outcome EXCEPT ![c]["xml"] = out,
                                           ![c]["normalize"] = IF ok THEN "ok" ELSE "throw"]
                        /\ IF ok
                           THEN LeaveTry(c, archive[c], Bump(st, "normalize"),
                                         Payload(Normalize(XmlObject(work[c])), fos))
                           ELSE LeaveTry(c, archive[c], Bump(st, "normalize"),
                                         CatchValue(kind[c]))
    /\ UNCHANGED <<kind, content, target, fileObjects, work, output, handle>>

(* --------------------------- extractCoverImage ------------------------- *)

\* What extractSingleFile(p) can deliver for the archive with n entries.
ExtractSingleOutcomes(p, n) ==
    {<<"throw">>, Undefined, Null} \cup (IF p <= n THEN {EmptyBytes, Bytes(p)} ELSE {})

\* A check of the entry alone: if (!fileEntry).
HasFileEntry(d) == d # Undefined

\* The check of extractCoverImage, !fileEntry?.fileData, negated.
HasFileData(d) == Truthy(d)

\* await archive.extractSingleFile(comicImageFilepath) and the check of
\* fileEntry?.fileData.
ExtractSingleFile(c) ==
    /\ pc[c] = "extractSingle"
    /\ LET st == Bump(steps[c], "extract")
       IN  \E d \in ExtractSingleOutcomes(target[c], Len(content[c])) :
            /\ Delivered(c, "extract", ExtractLabel(d))
            /\ IF d = <<"throw">>
               THEN /\ LeaveTry(c, archive[c], st, CatchValue(kind[c]))
                    /\ UNCHANGED work
               ELSE IF HasFileData(d)
               THEN /\ work' = [work EXCEPT ![c] = d]
                    /\ Goto(c, "write", st)
                    /\ sessions' = SessionsAfter(c, FALSE)
                    /\ UNCHANGED archive
               ELSE /\ LeaveTry(c, archive[c], st, <<"false">>)
                    /\ UNCHANGED work
    /\ UNCHANGED <<kind, content, target, fileObjects, output, handle>>

\* await fs.writeFile(outputCoverPath, fileEntry.fileData); a failed write
\* may have left part of the data behind.
WriteFile(c) ==
    /\ pc[c] = "write"
    /\ LET st == Bump(steps[c], "write")
       IN  \E ok \in BOOLEAN :
            /\ Delivered(c, "write", IF ok THEN "ok" ELSE "fail")
            /\ IF ok
               THEN /\ output' = [output EXCEPT ![c] = work[c]]
                    /\ LeaveTry(c, archive[c], st, <<"true">>)
               ELSE /\ \E o \in {output[c], <<"partial">>} :
                        output' = [output EXCEPT ![c] = o]
                    /\ LeaveTry(c, archive[c], st, CatchValue(kind[c]))
    /\ UNCHANGED <<kind, content, target, fileObjects, work, handle>>

(* --------------------------- specification ----------------------------- *)

Next ==
    \E c \in Calls :
        \/ PathExists(c)
        \/ ReadFile(c)
        \/ Open(c)
        \/ GetFilesArray(c)
        \/ ExtractComicInfo(c)
        \/ XmlToJSON(c)
        \/ ExtractSingleFile(c)
        \/ WriteFile(c)

Spec == Init /\ [][Next]_vars

\* The archives of the concurrent calls: one with a sidecar and a page,
\* one with a page alone.
ConcurrentArchives ==
    { <<ComicInfoName, <<"p", "1", ".", "j", "p", "g">>>>,
      << <<"p", "1", ".", "j", "p", "g">> >> }

\* Every call is under way at once, each a parse or an extractCoverImage
\* of the archive at its own comicPath; two calls may name the same one.
InitConcurrent ==
    \E ks \in [Calls -> {"parse", "extractCoverImage"}], ar \in [Calls -> ConcurrentArchives] :
        /\ kind = ks
        /\ pc = [c \in Calls |-> "exists"]
        /\ content = ar
        /\ target = [c \in Calls |-> IF ks[c] = "extractCoverImage" THEN 1 ELSE 0]
        /\ archive = [c \in Calls |-> "null"]
        /\ fileObjects = [c \in Calls |-> <<>>]
        /\ work = [c \in Calls |-> Null]
        /\ result = [c \in Calls |-> Pending]
        /\ output = [c \in Calls |-> <<"unchanged">>]
        /\ steps = [c \in Calls |-> NoSteps]
        /\ outcome = [c \in Calls |-> NoOutcome]
        /\ sessions = NoSessions
        /\ handle = [c \in Calls |-> 0]

\* The awaits of the calls interleave in any order.
SpecConcurrent == InitConcurrent /\ [][Next]_vars

(* ------------------------------ claims --------------------------------- *)

Done(c) == pc[c] = "done"

IsPayload(v) == v[1] = "payload"

\* The call got its archive opened and listed.
Listed(c) == outcome[c].open = "ok" /\ outcome[c].list = "ok"

\* C1: in every execution of parse and of extractCoverImage close() is
\* invoked exactly once for each successful open(), on every exit path: it
\* is never invoked more often than open() succeeded, and when the call has
\* settled the two counts are equal.
C1_CloseOncePerOpen ==
    \A c \in Calls :
        /\ steps[c].close <= steps[c].opened
        /\ steps[c].opened <= 1
        /\ Done(c) => steps[c].close = steps[c].opened
        /\ Done(c) => archive[c] # "open"

\* A parse whose sidecar extraction threw has settled with its one session closed.
C1_Witness ==
    \E c \in Calls :
        /\ Done(c) /\ kind[c] = "parse" /\ outcome[c].extract = "throw"
        /\ steps[c].opened = 1 /\ steps[c].close = 1

C3_NeverThrows ==
    \A c \in Calls :
        Done(c) =>
            /\ result[c].state = "returned"
            /\ kind[c] = "parse" => (result[c].value = Null \/ IsPayload(result[c].value))
            /\ kind[c] = "extractCoverImage" => result[c].value \in {<<"true">>, <<"false">>}

\* C4, as stated: extractCoverImage returns true if and only if the bytes
\* were loaded, the session opened, the entry was extracted with data and
\* the write completed; in every other case it returns exactly false.
C4_TrueIffWritten ==
    \A c \in Calls :
        (Done(c) /\ kind[c] = "extractCoverImage") =>
            IF /\ outcome[c].exists = "yes" /\ outcome[c].read = "ok"
               /\ outcome[c].open = "ok" /\ outcome[c].extract \in {"empty", "data"}
               /\ outcome[c].write = "ok"
            THEN result[c] = Returned(<<"true">>)
            ELSE result[c] = Returned(<<"false">>)

\* C5, as stated: when the path exists and the read fails, the loader
\* returns null and nothing is thrown: parse returns null,
\* extractCoverImage returns, and no session is opened.
C5_ReadFailureAbsorbed ==
    \A c \in Calls :
        (Done(c) /\ outcome[c].read = "fail") =>
            /\ result[c].state = "returned"
            /\ kind[c] = "parse" => result[c].value = Null
            /\ steps[c].openCall = 0

\* C6: when open() fails, parse returns null and extractCoverImage returns
\* false, nothing is thrown, no listing or extraction is attempted, and
\* close() is never called.
C6_OpenFailure ==
    \A c \in Calls :
        outcome[c].open = "fail" =>
            /\ Done(c)
            /\ result[c] = Returned(IF kind[c] = "parse" THEN Null ELSE <<"false">>)
            /\ steps[c].list = 0 /\ steps[c].extract = 0 /\ steps[c].close = 0
            /\ archive[c] = "null"

\* An extractCoverImage whose open() failed has settled.
C6_Witness ==
    \E c \in Calls :
        Done(c) /\ kind[c] = "extractCoverImage" /\ outcome[c].open = "fail"

\* The extension as the claim C7 words it: the substring after the last
\* ".", in lower case; no extension without a ".".
SubstringAfterLastDot(name) ==
    IF LastDot(name) = 0 THEN <<>>
    ELSE ToLowerCase(SubSeq(name, LastDot(name) + 1, Len(name)))

\* The archive paths of content[c] whose names satisfy the claim's wording
\* of a recognised image, and those that satisfy the code's.
WordedImages(c) ==
    {i \in 1..Len(content[c]) : SubstringAfterLastDot(content[c][i]) \in SupportedImageTypes}

CodeImages(c) == {i \in 1..Len(content[c]) : IsSupportedImage(content[c][i])}

\* The natural order of two names of content[c], by archive path.
Order(c, i, j) == LocaleCompare(content[c][i], content[c][j])

\* C7, as stated: for every opened and listed archive with at least one
\* entry whose extension, the substring after the last ".", is in the
\* recognised set, parse returns a result whose cover is the first such
\* entry in the natural order of the names, whatever order the decoder
\* listed them in: no such entry sorts before it, and none that sorts
\* level with it bears another name.
C7_Original ==
    \A c \in Calls :
        (Done(c) /\ kind[c] = "parse" /\ Listed(c) /\ WordedImages(c) # {}) =>
            /\ IsPayload(result[c].value)
            /\ \E p \in WordedImages(c) :
                /\ result[c].value[3] = <<"path", p>>
                /\ \A q \in WordedImages(c) :
                    /\ Order(c, p, q) <= 0
                    /\ Order(c, p, q) = 0 => content[c][q] = content[c][p]

\* C7, amended: for every opened and listed archive for which parse
\* returns a payload, and which has at least one entry whose Path.extname
\* extension (from the last ".", which must not open the name), lower-cased
\* and without its ".", is in the recognised set, the cover is the first
\* such entry of the stable natural sort: no such entry sorts before it,
\* and of those that sort level with it, it is the one the decoder listed
\* first.
C7_Amended ==
    \A c \in Calls :
        ( /\ Done(c) /\ kind[c] = "parse" /\ Listed(c)
          /\ IsPayload(result[c].value) /\ CodeImages(c) # {} ) =>
            \E p \in CodeImages(c) :
                /\ result[c].value[3] = <<"path", p>>
                /\ \A q \in CodeImages(c) :
                    \/ Order(c, p, q) < 0
                    \/ Order(c, p, q) = 0 /\ p <= q

\* A parse of the archive listed as p2.jpg, p10.jpg, p1.jpg chose p1.jpg.
C7_Witness ==
    \E c \in Calls :
        /\ Done(c) /\ kind[c] = "parse"
        /\ content[c] = << <<"p", "2", ".", "j", "p", "g">>,
                           <<"p", "1", "0", ".", "j", "p", "g">>,
                           <<"p", "1", ".", "j", "p", "g">> >>
        /\ IsPayload(result[c].value)
        /\ result[c].value[3] = <<"path", 3>>

\* The archive paths of content[c] that bear the sidecar name.
Sidecars(c) == {i \in 1..Len(content[c]) : content[c][i] = ComicInfoName}

\* C8, as stated: for every opened and listed archive that contains an
\* entry named ComicInfo.xml, parse returns a result whose metadata is
\* present and is the normalised form of that entry's content.
C8_Original ==
    \A c \in Calls :
        (Done(c) /\ kind[c] = "parse" /\ Listed(c) /\ Sidecars(c) # {}) =>
            /\ IsPayload(result[c].value)
            /\ \E p \in Sidecars(c) : result[c].value[2] = <<"metadata", p>>

\* C8, amended: for every opened and listed archive that contains an entry
\* named ComicInfo.xml, when extraction delivers the entry's fileData,
\* xmlToJSON delivers an object and normalisation does not throw, parse
\* returns a payload whose metadata is the normalised form of what was
\* extracted from the first-listed such entry; when extraction or
\* xmlToJSON delivers nothing the payload's metadata is null.
C8_Amended ==
    \A c \in Calls :
        (Done(c) /\ kind[c] = "parse" /\ Listed(c) /\ Sidecars(c) # {}) =>
            LET first == CHOOSE p \in Sidecars(c) : \A q \in Sidecars(c) : p <= q
            IN  /\ ( /\ outcome[c].extract \in {"empty", "data"}
                     /\ outcome[c].xml = "object" /\ outcome[c].normalize = "ok" )
                   => /\ IsPayload(result[c].value)
                      /\ result[c].value[2] =
                            <<"metadata", IF outcome[c].extract = "data" THEN first ELSE 0>>
                /\ ( \/ outcome[c].extract \in {"noentry", "nodata"}
                     \/ outcome[c].xml = "null" )
                   => /\ IsPayload(result[c].value)
                      /\ result[c].value[2] = Null

\* A parse of an archive with two sidecars returned the metadata of the
\* one listed first, at archive path 2.
C8_Witness ==
    \E c \in Calls :
        /\ Done(c) /\ kind[c] = "parse"
        /\ Len(content[c]) = 3 /\ Sidecars(c) = {2, 3}
        /\ IsPayload(result[c].value)
        /\ result[c].value[2] = <<"metadata", 2>>

\* C9: for every opened and listed archive with no entry named exactly
\* ComicInfo.xml, parse returns a payload whose metadata is null, and
\* nothing is extracted, decoded, converted from XML or normalised.
C9_NoSidecar ==
    \A c \in Calls :
        (kind[c] = "parse" /\ Listed(c) /\ Sidecars(c) = {}) =>
            /\ Done(c)
            /\ IsPayload(result[c].value)
            /\ result[c].value[2] = Null
            /\ steps[c].extract = 0 /\ steps[c].decode = 0
            /\ steps[c].xml = 0 /\ steps[c].normalize = 0

\* A parse of an archive that holds comicinfo.xml, and no ComicInfo.xml,
\* has returned.
C9_Witness ==
    \E c \in Calls :
        /\ Done(c) /\ kind[c] = "parse" /\ Listed(c) /\ Sidecars(c) = {}
        /\ \E i \in 1..Len(content[c]) :
            ToLowerCase(content[c][i]) = ToLowerCase(ComicInfoName)

\* C10: parse on a path that does not exist returns null without throwing,
\* before any session is opened: no open, list, extract or close occurs.
C10_MissingPath ==
    \A c \in Calls :
        (kind[c] = "parse" /\ outcome[c].exists = "no") =>
            /\ Done(c)
            /\ result[c] = Returned(Null)
            /\ steps[c] = NoSteps
            /\ archive[c] = "null"

\* A parse of a path that does not exist has settled.
C10_Witness ==
    \E c \in Calls : Done(c) /\ kind[c] = "parse" /\ outcome[c].exists = "no"

\* The sidecar steps of call c delivered a document that converted and
\* was normalised.
SidecarConverted(c) ==
    /\ outcome[c].extract \in {"empty", "data"}
    /\ outcome[c].xml = "object" /\ outcome[c].normalize = "ok"

\* A sidecar step of call c threw.
SidecarThrew(c) ==
    \/ outcome[c].extract = "throw"
    \/ outcome[c].xml = "throw"
    \/ outcome[c].normalize = "throw"

BothPresent ==
    \E c \in Calls :
        IsPayload(result[c].value) /\ result[c].value[2] # Null
                                   /\ result[c].value[3] # Undefined

CoverOnly ==
    \E c \in Calls :
        IsPayload(result[c].value) /\ result[c].value[2] = Null
                                   /\ result[c].value[3] # Undefined

NeitherPresent ==
    \E c \in Calls :
        IsPayload(result[c].value) /\ result[c].value[2] = Null
                                   /\ result[c].value[3] = Undefined

NotBothPresent == ~BothPresent

NotCoverOnly == ~CoverOnly

NotNeitherPresent == ~NeitherPresent

\* The sessions that are open, and the calls that have not settled.
OpenSessions == {s \in Calls : sessions[s].state = "open"}

InFlight == {c \in Calls : pc[c] \notin {"idle", "done"}}

\* C14: under any interleaving of concurrent calls each call opens at most
\* one session, which is its own; only the call that opened a session
\* lists, extracts from and closes it; there are never more open sessions
\* than calls in flight; and once every call has settled no session is open.
C14_SessionPerCall ==
    /\ \A c \in Calls :
        /\ steps[c].opened <= 1
        /\ handle[c] \in {0, c}
        /\ sessions[c].users \subseteq {c}
        /\ sessions[c].state = "open" => c \in InFlight
    /\ Cardinality(OpenSessions) <= Cardinality(InFlight)
    /\ InFlight = {} => OpenSessions = {}

\* Two calls hold a session each at the same time, and each has used its own.
C14_Witness ==
    \E c, d \in Calls :
        /\ c # d
        /\ sessions[c].state = "open" /\ sessions[c].users = {c}
        /\ sessions[d].state = "open" /\ sessions[d].users = {d}

\* Call c lists or extracts in the step at hand.
UsesSession(c) ==
    \/ steps'[c].list > steps[c].list
    \/ steps'[c].extract > steps[c].extract

\* C12: every listing of entries and every extraction of an entry's bytes
\* happens while the session is open: the step that lists or extracts
\* starts with archive referring to a session that open() delivered and
\* close() has not yet been called on.
C12_UseWhileOpen ==
    [][\A c \in Calls :
        UsesSession(c) =>
            /\ archive[c] = "open"
            /\ handle[c] # 0
            /\ sessions[handle[c]].state = "open"
            /\ steps[c].opened = 1 /\ steps[c].close = 0]_vars

\* A parse has listed and extracted, and its session is still open.
C12_Witness ==
    \E c \in Calls :
        /\ kind[c] = "parse" /\ pc[c] = "xml"
        /\ steps[c].list = 1 /\ steps[c].extract = 1
        /\ archive[c] = "open" /\ sessions[handle[c]].state = "open"

\* C13, as stated: when extracting the sidecar yields no data, be it null
\* or absent or of length zero, neither the decoding nor the XML
\* conversion is invoked and the result's metadata is absent.
C13_Original ==
    \A c \in Calls :
        (kind[c] = "parse" /\ outcome[c].extract \in {"noentry", "nodata", "empty"}) =>
            /\ steps[c].decode = 0 /\ steps[c].xml = 0
            /\ Done(c) => (IsPayload(result[c].value) /\ result[c].value[2] = Null)

\* C13, amended: when extracting the sidecar yields no entry or an entry
\* whose fileData is null or absent, neither the decoding nor the XML
\* conversion nor the normalisation is invoked and parse returns a payload
\* whose metadata is null; fileData of length zero is an object, passes
\* the check, and is decoded and handed to xmlToJSON.
C13_Amended ==
    \A c \in Calls :
        kind[c] = "parse" =>
            /\ outcome[c].extract \in {"noentry", "nodata"} =>
                /\ Done(c)
                /\ steps[c].decode = 0 /\ steps[c].xml = 0 /\ steps[c].normalize = 0
                /\ IsPayload(result[c].value) /\ result[c].value[2] = Null
            /\ outcome[c].extract = "empty" =>
                /\ steps[c].decode = 1
                /\ Done(c) => steps[c].xml = 1

\* A parse whose sidecar was extracted without fileData has returned.
C13_Witness ==
    \E c \in Calls :
        /\ Done(c) /\ kind[c] = "parse" /\ outcome[c].extract = "nodata"
        /\ steps[c].extract = 1 /\ steps[c].decode = 0

\* The collaborator outcomes of call c after which extractCoverImage has
\* no data to write.
NothingToWrite(c) ==
    \/ outcome[c].exists = "no"
    \/ outcome[c].read = "fail"
    \/ outcome[c].open = "fail"
    \/ outcome[c].extract \in {"throw", "noentry", "nodata"}

\* C15: extractCoverImage invokes the write at most once per call, and
\* only after the entry was extracted with fileData; when the bytes are
\* unavailable, open fails, extraction fails or the entry has no fileData,
\* the write is never invoked and the output path is left unchanged.
C15_WriteOnlyWithData ==
    \A c \in Calls :
        /\ steps[c].write <= 1
        /\ steps[c].write = 1 =>
            /\ kind[c] = "extractCoverImage"
            /\ outcome[c].extract \in {"empty", "data"}
            /\ steps[c].extract = 1
        /\ output[c] # <<"unchanged">> => steps[c].write = 1
        /\ NothingToWrite(c) => (steps[c].write = 0 /\ output[c] = <<"unchanged">>)

\* An extractCoverImage whose entry came without fileData returned false
\* and wrote nothing.
C15_Witness ==
    \E c \in Calls :
        /\ Done(c) /\ kind[c] = "extractCoverImage" /\ outcome[c].extract = "nodata"
        /\ result[c] = Returned(<<"false">>)
        /\ steps[c].write = 0 /\ output[c] = <<"unchanged">>

====
